---- MODULE Spec2Model ----
(***************************************************************************)
(* FittingProblemMultipleCondition (src/FittingProblemMultipleCondition.py)*)
(* as a state machine.  The aggregator owns one single-condition           *)
(* FittingProblem per experimental condition, sweeps the candidate model   *)
(* names in order, sums the per-condition cost and penalty of every name   *)
(* and stops once the last stopFittingN models brought no new best         *)
(* log-likelihood.                                                         *)
(*                                                                         *)
(* The single-condition FittingProblem is imported (line 11) and is not    *)
(* part of the file: its constructor, fitAll, fitPerfectModel, plotResults *)
(* and dictionaries are modelled from the interface the specification      *)
(* gives for it (the Sub... definitions).                                  *)
(*                                                                         *)
(* Python floats are modelled as integers; a dictionary is a function      *)
(* whose DOMAIN is its key set; lists are sequences (1-based), the sweep   *)
(* index i keeps the code's 0-based value.                                 *)
(***************************************************************************)
EXTENDS Integers, Sequences, FiniteSets, TLC

(* ------------------------------ bounds --------------------------------- *)

\* largest number of datasets / independent-parameter lists handed to __init__
MaxCond == 2
\* largest length of the candidate model list
MaxModels == 3
\* largest stopping window the per-condition problems are configured with
MaxStopN == 2

(* --------------------------- values and helpers ------------------------ *)

\* an optional argument: None, or a value
NoneVal == [none |-> TRUE, list |-> <<>>]
Given(list) == [none |-> FALSE, list |-> list]

\* an attribute of an object: never set, or set to a value
Undefined == <<>>
Attr(v) == <<v>>
HasAttr(a) == a # Undefined
AttrVal(a) == a[1]

\* the default independent-parameter list [[]] of line 41
DefaultIndepParamsList == [indepParams |-> 0]

\* (cost, penalty) pairs a single-condition fit may end with, main sweep
Outcomes == {[cost |-> 1, penalty |-> 1], [cost |-> 2, penalty |-> 3]}

\* the log-likelihood sequence of the stopping-rule example, 7 models
ExampleLs == <<5, 6, 7, 4, 3, 2, 1>>
\* a fit of the j-th example model yields the example's value, or its best one
ExampleOutcomes(j) ==
    {[cost |-> -ll, penalty |-> 0] : ll \in {ExampleLs[j], ExampleLs[3]}}

EmptyDict == <<>>

\* faulty variant: the assignment replaces the dictionary by a one-entry one
DictSetDropsOthers(d, key, val) == [x \in {key} |-> val]

\* d[key] = val
DictSet(d, key, val) ==
    [x \in (DOMAIN d) \cup {key} |-> IF x = key THEN val ELSE d[x]]

Min(a, b) == IF a < b THEN a ELSE b

\* Python's max() of a non-empty list
PyMax(seq) == CHOOSE m \in {seq[j] : j \in DOMAIN seq} :
                  \A j \in DOMAIN seq : seq[j] <= m

\* faulty variant: a slice that starts one element too early
PySliceFromOneEarlier(seq, start) ==
    LET n == Len(seq)
        first == IF n + start - 1 < 0 THEN 0 ELSE n + start - 1
    IN  [j \in 1..(n - first) |-> seq[first + j]]

\* faulty variant: a start of -0 is taken as -1, the last element
PySliceFromZeroAsLast(seq, start) ==
    LET n == Len(seq)
        first == IF start < 0 THEN (IF n + start < 0 THEN 0 ELSE n + start)
                 ELSE IF start = 0 THEN (IF n = 0 THEN 0 ELSE n - 1)
                 ELSE (IF start > n THEN n ELSE start)
    IN  [j \in 1..(n - first) |-> seq[first + j]]

\* Python's seq[start:] : a negative start counts from the end, and is
\* clipped at the beginning; -0 is 0, the whole list
PySliceFrom(seq, start) ==
    LET n == Len(seq)
        first == IF start < 0 THEN (IF n + start < 0 THEN 0 ELSE n + start)
                 ELSE (IF start > n THEN n ELSE start)
    IN  [j \in 1..(n - first) |-> seq[first + j]]

\* faulty variant: pairs the k-th dataset with the k-th parameter list from the end
ZipMisaligned(a, b) ==
    [k \in 1..Min(Len(a), Len(b)) |-> <<a[k], b[Len(b) + 1 - k]>>]

\* Python's zip(a, b): pairs up to the shorter of the two
Zip(a, b) == [k \in 1..Min(Len(a), Len(b)) |-> <<a[k], b[k]>>]

(* -------------------------------- state -------------------------------- *)

VARIABLES
    \* the constructor's arguments (lines 36-38), fixed for the object's life
    fittingDataMultiple,      \* list of datasets, one per condition
    indepParamsListMultiple,  \* list of independent-parameter lists, or None
    fittingModelList,         \* ordered candidate model names
    kwStopFittingN,           \* stopFittingN the per-condition problems get
    fitOutcomes,              \* per model name, what a fit of it may yield
    \* the object
    pc,                       \* "new", "idle", "sweep" (inside fitAll), "failed"
    fittingProblemList,       \* one single-condition problem per condition
    costDict, penaltyDict, logLikelihoodDict,
    numParametersDict,        \* own dictionary, or a reference to another one
    fitAllDone,
    fittingModelNames,
    stopFittingN,
    \* locals of a running fitAll (lines 81-89)
    i,                        \* sweep index, 0-based as in enumerate
    cond,                     \* position of the inner loop in fittingProblemList
    costMultiple, penaltyMultiple,
    \* observation
    fitAllCalls,              \* "none", "first" or "later": which fitAll call
                              \* of the object is running or was made last
    callLog,                  \* per-condition calls of the current/last operation
    orderedLs,                \* the list built at lines 106-111 when the stopping
                              \* rule was last evaluated in the current/last fitAll
    result                    \* how the last operation ended

args == <<fittingDataMultiple, indepParamsListMultiple, fittingModelList,
          kwStopFittingN, fitOutcomes>>
dicts == <<costDict, penaltyDict, logLikelihoodDict, numParametersDict>>
setupAttrs == <<fittingModelNames, stopFittingN>>
locals == <<i, cond, costMultiple, penaltyMultiple>>
vars == <<args, pc, fittingProblemList, dicts, fitAllDone, setupAttrs, locals,
          fitAllCalls, callLog, orderedLs, result>>

\* the aggregator's numParametersDict is either its own (empty) dictionary of
\* line 58 or, after line 102, the very object held by the first problem
OwnDict == [ref |-> "own"]
FirstProblemDict == [ref |-> "fittingProblemList[0]"]

NumParametersDictValue ==
    IF numParametersDict = FirstProblemDict
    THEN fittingProblemList[1].numParametersDict
    ELSE EmptyDict

\* how an operation ended: kind is "return" or "error"; a fitAll result also
\* tells where it ended (step, cond) and whether by the stopping rule
Ended(op, kind) ==
    [op |-> op, kind |-> kind, err |-> "", step |-> 0, cond |-> 0,
     early |-> FALSE, name |-> 0, val |-> <<>>]

NoResult == Ended("none", "none")

(* ------------------- the single-condition FittingProblem --------------- *)

\* FittingProblem(fittingData, fittingModelList, indepParamsList=..., **kwargs)
SubConstruct(fittingData, modelList, indepParamsList, stopN) ==
    [fittingData |-> fittingData,
     indepParamsList |-> indepParamsList,
     fittingModelNames |-> modelList,
     stopFittingN |-> stopN,
     costDict |-> EmptyDict,
     penaltyDict |-> EmptyDict,
     numParametersDict |-> EmptyDict,
     fittingModelDict |-> EmptyDict,
     perfectFitted |-> FALSE]

\* the fitted model object a problem keeps for a name
FittedModel(fp, name) == [data |-> fp.fittingData, model |-> name]

\* the number of parameters of a model structure (independent of the data)
NumParameters(name) == name

\* the name fitAll(maxNumFit = m) brings up to date: the m-th candidate
SubCurrentName(fp, maxNumFit) == fp.fittingModelNames[maxNumFit]

\* fittingProblem.fitAll(maxNumFit = m): fits the m-th candidate unless the
\* problem holds a fit of it already, which it then reuses
SubFitAll(fp, maxNumFit, outcome) ==
    LET name == SubCurrentName(fp, maxNumFit) IN
    IF name \in DOMAIN fp.costDict
    THEN fp
    ELSE [fp EXCEPT
            !.costDict = DictSet(@, name, outcome.cost),
            !.penaltyDict = DictSet(@, name, outcome.penalty),
            !.numParametersDict = DictSet(@, name, NumParameters(name)),
            !.fittingModelDict = DictSet(@, name, FittedModel(fp, name))]

\* fittingProblem.fitPerfectModel(**kwargs)
SubFitPerfectModel(fp) == [fp EXCEPT !.perfectFitted = TRUE]

\* fittingProblem.plotResults(**kwargs): draws, keeps the problem as it is
SubPlotResults(fp) == fp

(* ----------------------------- construction ---------------------------- *)

DataLists == {[k \in 1..n |-> [dataset |-> k]] : n \in 1..MaxCond}
ParamLists == {[k \in 1..n |-> [indepParams |-> k]] : n \in 1..MaxCond}
ModelLists == {[k \in 1..n |-> k] : n \in 0..MaxModels}

TypeInitObject ==
    /\ pc = "new"
    /\ fittingProblemList = <<>>
    /\ costDict = EmptyDict
    /\ penaltyDict = EmptyDict
    /\ logLikelihoodDict = EmptyDict
    /\ numParametersDict = OwnDict
    /\ fitAllDone = FALSE
    /\ fittingModelNames = <<>>
    /\ stopFittingN = Undefined
    /\ i = 0
    /\ cond = 0
    /\ costMultiple = 0
    /\ penaltyMultiple = 0
    /\ fitAllCalls = "none"
    /\ callLog = <<>>
    /\ orderedLs = <<>>
    /\ result = NoResult

InitArgs ==
    /\ fittingDataMultiple \in DataLists
    /\ indepParamsListMultiple \in {Given(l) : l \in ParamLists} \cup {NoneVal}
    /\ fittingModelList \in ModelLists
    /\ kwStopFittingN \in {Attr(w) : w \in 0..MaxStopN} \cup {Undefined}

\* every operation; the fit of a model name ends alike in every condition
Init ==
    /\ InitArgs
    /\ fitOutcomes \in [DOMAIN fittingModelList -> {{o} : o \in Outcomes}]
    /\ TypeInitObject

\* the sweep; every single fit ends with any of the outcomes
InitSweep ==
    /\ InitArgs
    /\ fitOutcomes = [name \in DOMAIN fittingModelList |-> Outcomes]
    /\ TypeInitObject

\* the stopping-rule example: one condition, seven models, window 3
InitExample ==
    /\ fittingDataMultiple = <<[dataset |-> 1]>>
    /\ indepParamsListMultiple = NoneVal
    /\ fittingModelList = [k \in DOMAIN ExampleLs |-> k]
    /\ kwStopFittingN = Attr(3)
    /\ fitOutcomes = [name \in DOMAIN ExampleLs |-> ExampleOutcomes(name)]
    /\ TypeInitObject

\* lines 40-41
EffectiveIndepParams ==
    IF indepParamsListMultiple = NoneVal
    THEN [k \in 1..Len(fittingDataMultiple) |-> DefaultIndepParamsList]
    ELSE indepParamsListMultiple.list

\* lines 45-50
BuildProblemList ==
    LET pairs == Zip(fittingDataMultiple, EffectiveIndepParams) IN
    [k \in DOMAIN pairs |->
        SubConstruct(pairs[k][1], fittingModelList, pairs[k][2], kwStopFittingN)]

\* __init__ (lines 36-53) with generalSetup (lines 55-73).  Reading
\* f.stopFittingN of a first problem that has no such attribute raises
\* AttributeError out of the constructor: no object is handed to the caller.
Construct ==
    /\ pc = "new"
    /\ fittingProblemList' = BuildProblemList
    /\ costDict' = EmptyDict
    /\ penaltyDict' = EmptyDict
    /\ numParametersDict' = OwnDict
    /\ logLikelihoodDict' = EmptyDict
    /\ fitAllDone' = FALSE
    /\ LET f == fittingProblemList'[1] IN
         /\ fittingModelNames' = f.fittingModelNames
         /\ IF ~HasAttr(f.stopFittingN)
            THEN /\ stopFittingN' = Undefined
                 /\ pc' = "failed"
                 /\ result' = [Ended("__init__", "error")
                                 EXCEPT !.err = "AttributeError"]
            ELSE /\ stopFittingN' = f.stopFittingN
                 /\ pc' = "idle"
                 /\ result' = Ended("__init__", "return")
    /\ UNCHANGED <<args, locals, fitAllCalls, callLog, orderedLs>>

(* -------------------------------- fitAll ------------------------------- *)

\* the window used when the object has no stopFittingN (line 108)
DefaultStopFittingN == 3

\* faulty variant: = instead of +=
AccumulateLast(total, value) == value

\* lines 84-85 and the += of lines 88-89
Accumulate(total, value) == total + value

\* faulty variant: the penalty is left out
LogLikelihoodCostOnly(cost, penalty) == -cost

\* line 101
LogLikelihood(cost, penalty) == -(cost + penalty)

\* faulty variant: the list is built back to front
RECURSIVE OrderedLsReversed(_, _)
OrderedLsReversed(names, llDict) ==
    IF names = <<>> THEN <<>>
    ELSE LET n == Head(names)
             rest == OrderedLsReversed(Tail(names), llDict)
         IN  IF n \in DOMAIN llDict THEN rest \o <<llDict[n]>> ELSE rest

\* lines 106-111: the recorded log-likelihoods, in the order of the names
RECURSIVE OrderedLs(_, _)
OrderedLs(names, llDict) ==
    IF names = <<>> THEN <<>>
    ELSE LET n == Head(names)
             rest == OrderedLs(Tail(names), llDict)
         IN  IF n \in DOMAIN llDict THEN <<llDict[n]>> \o rest ELSE rest

\* faulty variant: stops on a tie as well
StopNowOnTie(ls, stopN) ==
    /\ Len(ls) > stopN
    /\ PyMax(PySliceFrom(ls, -stopN)) <= PyMax(ls)

\* faulty variant: looks at the last model only, whatever the window
StopNowWindowOne(ls, stopN) ==
    /\ Len(ls) > 1
    /\ PyMax(PySliceFrom(ls, -1)) < PyMax(ls)

\* lines 112-113
StopNow(ls, stopN) ==
    /\ Len(ls) > stopN
    /\ PyMax(PySliceFrom(ls, -stopN)) < PyMax(ls)

ResetLocals ==
    /\ i' = 0
    /\ cond' = 0
    /\ costMultiple' = 0
    /\ penaltyMultiple' = 0

\* faulty variant: line 117 sits inside the loop, a call with no candidate
\* name returns without setting fitAllDone
FitAllCallEmptyNotDone ==
    /\ pc = "idle"
    /\ fitAllCalls' = IF fitAllCalls = "none" THEN "first" ELSE "later"
    /\ callLog' = <<>>
    /\ orderedLs' = <<>>
    /\ IF Len(fittingModelNames) = 0
       THEN /\ pc' = "idle"
            /\ result' = Ended("fitAll", "return")
            /\ ResetLocals
       ELSE /\ pc' = "sweep"
            /\ i' = 0
            /\ cond' = 1
            /\ costMultiple' = 0
            /\ penaltyMultiple' = 0
            /\ result' = Ended("fitAll", "running")
    /\ UNCHANGED <<args, fittingProblemList, dicts, fitAllDone, setupAttrs>>

\* fitAll is called (line 75); with no candidate name the loop body never
\* runs and line 117 ends the call
FitAllCall ==
    /\ pc = "idle"
    /\ fitAllCalls' = IF fitAllCalls = "none" THEN "first" ELSE "later"
    /\ callLog' = <<>>
    /\ orderedLs' = <<>>
    /\ IF Len(fittingModelNames) = 0
       THEN /\ fitAllDone' = TRUE
            /\ pc' = "idle"
            /\ result' = Ended("fitAll", "return")
            /\ ResetLocals
       ELSE /\ pc' = "sweep"
            /\ i' = 0
            /\ cond' = 1
            /\ costMultiple' = 0
            /\ penaltyMultiple' = 0
            /\ result' = Ended("fitAll", "running")
            /\ UNCHANGED fitAllDone
    /\ UNCHANGED <<args, fittingProblemList, dicts, setupAttrs>>

\* faulty variant: lines 99-101 sit inside the inner loop, the running totals
\* are recorded after every problem
FitConditionRecordsInside ==
    /\ pc = "sweep"
    /\ cond <= Len(fittingProblemList)
    /\ LET name == fittingModelNames[i + 1] IN
       \E outcome \in fitOutcomes[name] :
         LET fp == SubFitAll(fittingProblemList[cond], i + 1, outcome) IN
           /\ fittingProblemList' = [fittingProblemList EXCEPT ![cond] = fp]
           /\ costMultiple' = Accumulate(costMultiple, fp.costDict[name])
           /\ penaltyMultiple' = Accumulate(penaltyMultiple, fp.penaltyDict[name])
           /\ callLog' = Append(callLog,
                  [op |-> "fitAll", cond |-> cond, maxNumFit |-> i + 1,
                   returned |-> TRUE,
                   cost |-> fp.costDict[name], penalty |-> fp.penaltyDict[name]])
           /\ costDict' = DictSet(costDict, name, costMultiple')
           /\ penaltyDict' = DictSet(penaltyDict, name, penaltyMultiple')
           /\ logLikelihoodDict' =
                  DictSet(logLikelihoodDict, name,
                          LogLikelihood(costMultiple', penaltyMultiple'))
    /\ cond' = cond + 1
    /\ UNCHANGED <<args, pc, numParametersDict, fitAllDone, setupAttrs, i,
                   fitAllCalls, orderedLs, result>>

\* faulty variant: the problem is fitted twice in one pass of the inner loop
FitConditionTwice ==
    /\ pc = "sweep"
    /\ cond <= Len(fittingProblemList)
    /\ LET name == fittingModelNames[i + 1] IN
       \E outcome \in fitOutcomes[name] :
         LET fp == SubFitAll(fittingProblemList[cond], i + 1, outcome)
             call == [op |-> "fitAll", cond |-> cond, maxNumFit |-> i + 1,
                      returned |-> TRUE,
                      cost |-> fp.costDict[name], penalty |-> fp.penaltyDict[name]]
         IN
           /\ fittingProblemList' = [fittingProblemList EXCEPT ![cond] = fp]
           /\ costMultiple' = Accumulate(costMultiple, fp.costDict[name])
           /\ penaltyMultiple' = Accumulate(penaltyMultiple, fp.penaltyDict[name])
           /\ callLog' = callLog \o <<call, call>>
    /\ cond' = cond + 1
    /\ UNCHANGED <<args, pc, dicts, fitAllDone, setupAttrs, i, fitAllCalls, orderedLs, result>>

\* one pass of the inner loop (lines 86-89): the problem's fitAll returns
FitCondition ==
    /\ pc = "sweep"
    /\ cond <= Len(fittingProblemList)
    /\ LET name == fittingModelNames[i + 1] IN
       \E outcome \in fitOutcomes[name] :
         LET fp == SubFitAll(fittingProblemList[cond], i + 1, outcome) IN
           /\ fittingProblemList' = [fittingProblemList EXCEPT ![cond] = fp]
           /\ costMultiple' = Accumulate(costMultiple, fp.costDict[name])
           /\ penaltyMultiple' = Accumulate(penaltyMultiple, fp.penaltyDict[name])
           /\ callLog' = Append(callLog,
                  [op |-> "fitAll", cond |-> cond, maxNumFit |-> i + 1,
                   returned |-> TRUE,
                   cost |-> fp.costDict[name], penalty |-> fp.penaltyDict[name]])
    /\ cond' = cond + 1
    /\ UNCHANGED <<args, pc, dicts, fitAllDone, setupAttrs, i, fitAllCalls, orderedLs, result>>

\* whether fitAll(maxNumFit = m) has a model left to fit; only a fit can fail
SubHasWork(fp, maxNumFit) ==
    SubCurrentName(fp, maxNumFit) \notin DOMAIN fp.costDict

\* faulty variant: the error passes through a handler that records the partial totals
FitConditionRaisesRecordsPartial ==
    /\ pc = "sweep"
    /\ cond <= Len(fittingProblemList)
    /\ SubHasWork(fittingProblemList[cond], i + 1)
    /\ callLog' = Append(callLog,
           [op |-> "fitAll", cond |-> cond, maxNumFit |-> i + 1,
            returned |-> FALSE, cost |-> 0, penalty |-> 0])
    /\ result' = [Ended("fitAll", "error")
                    EXCEPT !.err = "FitError", !.step = i, !.cond = cond]
    /\ pc' = "idle"
    /\ ResetLocals
    /\ costDict' = DictSet(costDict, fittingModelNames[i + 1], costMultiple)
    /\ penaltyDict' = DictSet(penaltyDict, fittingModelNames[i + 1], penaltyMultiple)
    /\ logLikelihoodDict' =
           DictSet(logLikelihoodDict, fittingModelNames[i + 1],
                   LogLikelihood(costMultiple, penaltyMultiple))
    /\ UNCHANGED <<args, fittingProblemList, numParametersDict, fitAllDone,
                   setupAttrs, fitAllCalls, orderedLs>>

\* the problem's fitAll raises (line 87): the error leaves fitAll as it is
FitConditionRaises ==
    /\ pc = "sweep"
    /\ cond <= Len(fittingProblemList)
    /\ SubHasWork(fittingProblemList[cond], i + 1)
    /\ callLog' = Append(callLog,
           [op |-> "fitAll", cond |-> cond, maxNumFit |-> i + 1,
            returned |-> FALSE, cost |-> 0, penalty |-> 0])
    /\ result' = [Ended("fitAll", "error")
                    EXCEPT !.err = "FitError", !.step = i, !.cond = cond]
    /\ pc' = "idle"
    /\ ResetLocals
    /\ UNCHANGED <<args, fittingProblemList, dicts, fitAllDone, setupAttrs,
                   fitAllCalls, orderedLs>>

\* the rest of a sweep step once every problem is fitted (lines 99-115), then
\* either the next step or the end of the loop (line 117)
RecordStep ==
    /\ pc = "sweep"
    /\ cond > Len(fittingProblemList)
    /\ LET name == fittingModelNames[i + 1]
           window == IF ~HasAttr(stopFittingN) THEN DefaultStopFittingN
                     ELSE AttrVal(stopFittingN)
       IN
       /\ costDict' = DictSet(costDict, name, costMultiple)
       /\ penaltyDict' = DictSet(penaltyDict, name, penaltyMultiple)
       /\ logLikelihoodDict' =
              DictSet(logLikelihoodDict, name,
                      LogLikelihood(costMultiple, penaltyMultiple))
       /\ numParametersDict' = FirstProblemDict
       /\ stopFittingN' = Attr(window)
       /\ orderedLs' = OrderedLs(fittingModelNames, logLikelihoodDict')
       /\ IF StopNow(orderedLs', window)
          THEN /\ fitAllDone' = TRUE
               /\ pc' = "idle"
               /\ result' = [Ended("fitAll", "return")
                               EXCEPT !.step = i, !.early = TRUE]
               /\ ResetLocals
          ELSE IF i + 1 < Len(fittingModelNames)
          THEN /\ i' = i + 1
               /\ cond' = 1
               /\ costMultiple' = 0
               /\ penaltyMultiple' = 0
               /\ UNCHANGED <<pc, fitAllDone, result>>
          ELSE /\ fitAllDone' = TRUE
               /\ pc' = "idle"
               /\ result' = [Ended("fitAll", "return") EXCEPT !.step = i]
               /\ ResetLocals
    /\ UNCHANGED <<args, fittingProblemList, fittingModelNames, fitAllCalls,
                   callLog>>

(* --------------------------- other operations -------------------------- *)

\* faulty variant: the loop runs over the list backwards
BroadcastReversed(op) ==
    [k \in 1..Len(fittingProblemList) |->
        [op |-> op, cond |-> Len(fittingProblemList) + 1 - k, maxNumFit |-> 0,
         returned |-> TRUE, cost |-> 0, penalty |-> 0]]

\* the per-condition calls of a broadcast, in the order they are made
Broadcast(op) ==
    [k \in 1..Len(fittingProblemList) |->
        [op |-> op, cond |-> k, maxNumFit |-> 0, returned |-> TRUE,
         cost |-> 0, penalty |-> 0]]

\* lines 119-121
FitPerfectModel ==
    /\ pc = "idle"
    /\ fittingProblemList' =
           [k \in DOMAIN fittingProblemList |->
               SubFitPerfectModel(fittingProblemList[k])]
    /\ callLog' = Broadcast("fitPerfectModel")
    /\ result' = Ended("fitPerfectModel", "return")
    /\ UNCHANGED <<args, pc, dicts, fitAllDone, setupAttrs, locals, fitAllCalls, orderedLs>>

\* lines 132-137
PlotResults ==
    /\ pc = "idle"
    /\ fittingProblemList' =
           [k \in DOMAIN fittingProblemList |->
               SubPlotResults(fittingProblemList[k])]
    /\ callLog' = Broadcast("plotResults")
    /\ result' = Ended("plotResults", "return")
    /\ UNCHANGED <<args, pc, dicts, fitAllDone, setupAttrs, locals, fitAllCalls, orderedLs>>

\* the operations that raise "Not implemented" (lines 123-130, 139-146, 164-165)
UnsupportedOps ==
    {"numStiffSingVals", "_StiffSingVals", "_UpdateDicts",
     "correlationWithPerfectModel", "outOfSampleCorrelation",
     "calculateAllOutOfSampleCorrelation", "_fixOldVersion"}

\* faulty variant: the operation returns without doing anything
SilentNoOp(op) ==
    /\ result' = Ended(op, "return")
    /\ callLog' = <<>>
    /\ UNCHANGED <<args, pc, fittingProblemList, dicts, fitAllDone, setupAttrs,
                   locals, fitAllCalls, orderedLs>>

\* raise Exception, "Not implemented"
RaiseNotImplemented(op) ==
    /\ result' = [Ended(op, "error") EXCEPT !.err = "Not implemented"]
    /\ callLog' = <<>>
    /\ UNCHANGED <<args, pc, fittingProblemList, dicts, fitAllDone, setupAttrs,
                   locals, fitAllCalls, orderedLs>>

Unsupported ==
    /\ pc = "idle"
    /\ \E op \in UnsupportedOps : RaiseNotImplemented(op)

\* faulty variant: only the first problem's model is returned
BestModelFirstOnly(modelName) ==
    IF modelName \in DOMAIN fittingProblemList[1].fittingModelDict
    THEN [Ended("getBestModel", "return") EXCEPT
            !.name = modelName,
            !.val = <<fittingProblemList[1].fittingModelDict[modelName]>>]
    ELSE [Ended("getBestModel", "error") EXCEPT
            !.name = modelName, !.err = "KeyError"]

\* faulty variant: the problems that have no model for the name are skipped
BestModelSkipMissing(modelName) ==
    LET have == SelectSeq(fittingProblemList,
                    LAMBDA fp : modelName \in DOMAIN fp.fittingModelDict)
    IN  [Ended("getBestModel", "return") EXCEPT
            !.name = modelName,
            !.val = [k \in DOMAIN have |-> have[k].fittingModelDict[modelName]]]

\* line 151: the list of the problems' fitted models, or the KeyError of the
\* first problem that has none for the name
BestModelList(modelName) ==
    IF \A k \in DOMAIN fittingProblemList :
           modelName \in DOMAIN fittingProblemList[k].fittingModelDict
    THEN [Ended("getBestModel", "return") EXCEPT
            !.name = modelName,
            !.val = [k \in DOMAIN fittingProblemList |->
                        fittingProblemList[k].fittingModelDict[modelName]]]
    ELSE [Ended("getBestModel", "error") EXCEPT
            !.name = modelName, !.err = "KeyError"]

\* getBestModel with an explicit model name (lines 148-152); with modelName
\* None the name comes from the inherited maxLogLikelihoodName, not modelled
GetBestModel ==
    /\ pc = "idle"
    /\ \E modelName \in 1..MaxModels :
          result' = BestModelList(modelName)
    /\ callLog' = <<>>
    /\ UNCHANGED <<args, pc, fittingProblemList, dicts, fitAllDone, setupAttrs,
                   locals, fitAllCalls, orderedLs>>

(* ---------------------------- specification ---------------------------- *)

Next ==
    \/ Construct
    \/ FitAllCall
    \/ FitCondition
    \/ FitConditionRaises
    \/ RecordStep
    \/ FitPerfectModel
    \/ PlotResults
    \/ Unsupported
    \/ GetBestModel

Spec == Init /\ [][Next]_vars

\* the sweep alone: construction and fitAll calls
NextSweep ==
    \/ Construct
    \/ FitAllCall
    \/ FitCondition
    \/ FitConditionRaises
    \/ RecordStep

SpecSweep == InitSweep /\ [][NextSweep]_vars

\* the stopping-rule example: every fit returns
NextExample ==
    \/ Construct
    \/ FitAllCall
    \/ FitCondition
    \/ RecordStep

SpecExample == InitExample /\ [][NextExample]_vars

\* the sweep when every per-condition fit returns.  fitAll is one sequential
\* loop: once called it goes on with the next fit, or with the rest of the
\* step, until it returns.
NextReturns ==
    \/ Construct
    \/ FitAllCall
    \/ FitCondition
    \/ RecordStep

SpecReturns ==
    /\ InitSweep
    /\ [][NextReturns]_vars
    /\ WF_vars(FitCondition)
    /\ WF_vars(RecordStep)

(* ------------------------------- claims -------------------------------- *)

NumConditions == Len(fittingProblemList)

\* the window of a constructed object
Window == AttrVal(stopFittingN)

\* the last operation was the first fitAll call of the object and it returned
FirstFitAllReturned ==
    /\ pc = "idle"
    /\ fitAllCalls = "first"
    /\ result.op = "fitAll"
    /\ result.kind = "return"

\* the names of the first n candidates
FirstNames(n) == {fittingModelNames[m] : m \in 1..n}

\* the logged calls, in the order made, of the sweep step of the m-th candidate
StepCalls(m) == SelectSeq(callLog, LAMBDA c : c.op = "fitAll" /\ c.maxNumFit = m)

RECURSIVE SumOver(_, _)
SumOver(calls, field) ==
    IF calls = <<>> THEN 0
    ELSE SumOver(SubSeq(calls, 1, Len(calls) - 1), field)
         + (IF field = "cost" THEN calls[Len(calls)].cost
            ELSE calls[Len(calls)].penalty)

\* C1: after the first fitAll call on an object with N >= 1 problems and a
\* non-empty candidate list has returned, the aggregate cost of every swept
\* name is the sum, in condition order, of the costs read from the N problems
\* right after their fits at that step, and the aggregate penalty is the sum of
\* the penalties read there.
C1_AggregateIsSumOfConditions ==
    (FirstFitAllReturned /\ Len(fittingModelNames) >= 1) =>
        /\ DOMAIN costDict = FirstNames(result.step + 1)
        /\ DOMAIN penaltyDict = FirstNames(result.step + 1)
        /\ \A m \in 1..(result.step + 1) :
             LET calls == StepCalls(m) IN
               /\ Len(calls) = NumConditions
               /\ \A k \in 1..NumConditions :
                      calls[k].cond = k /\ calls[k].returned
               /\ costDict[fittingModelNames[m]] = SumOver(calls, "cost")
               /\ penaltyDict[fittingModelNames[m]] = SumOver(calls, "penalty")

C1_Witness ==
    /\ FirstFitAllReturned
    /\ NumConditions = 2
    /\ result.step >= 1
    /\ \E m \in 1..(result.step + 1) :
          StepCalls(m)[1].cost # StepCalls(m)[2].cost

\* C2: in every state the cost, penalty and log-likelihood dictionaries have
\* the same names as keys, and the log-likelihood of every name is minus the
\* sum of its cost and its penalty.
C2_LogLikelihoodIsMinusCostPlusPenalty ==
    /\ DOMAIN costDict = DOMAIN logLikelihoodDict
    /\ DOMAIN penaltyDict = DOMAIN logLikelihoodDict
    /\ \A name \in DOMAIN logLikelihoodDict :
          logLikelihoodDict[name] + costDict[name] + penaltyDict[name] = 0

C2_Witness ==
    /\ pc = "sweep"
    /\ fitAllCalls = "later"
    /\ Cardinality(DOMAIN logLikelihoodDict) >= 2
    /\ \E name \in DOMAIN penaltyDict : penaltyDict[name] > 0

\* the log-likelihood recorded for the m-th candidate
RecordedL(m) == logLikelihoodDict[fittingModelNames[m]]

\* with n models recorded, n exceeds the window w and some recorded model is
\* strictly better than every one of the last w
WindowIsWorse(n, w) ==
    /\ n > w
    /\ \E best \in 1..n :
          \A m \in (n - w + 1)..n : RecordedL(m) < RecordedL(best)

\* C3: in the first fitAll call of an object with window W >= 1, the sweep is
\* stopped exactly at the first step at which the number of recorded models
\* exceeds W and the best of the last W is strictly worse than the best of all:
\* not before, not later, not on a tie, and the later names get no entry.
C3_StopsAtFirstWorseWindow ==
    (fitAllCalls = "first" /\ Window >= 1) =>
        /\ pc = "sweep" =>
             /\ DOMAIN logLikelihoodDict = FirstNames(i)
             /\ \A n \in 1..i : ~WindowIsWorse(n, Window)
        /\ (FirstFitAllReturned /\ Len(fittingModelNames) >= 1) =>
             LET n == result.step + 1 IN
               /\ DOMAIN logLikelihoodDict = FirstNames(n)
               /\ DOMAIN costDict = FirstNames(n)
               /\ DOMAIN penaltyDict = FirstNames(n)
               /\ \A m \in 1..(n - 1) : ~WindowIsWorse(m, Window)
               /\ result.early <=> WindowIsWorse(n, Window)
               /\ ~result.early => n = Len(fittingModelNames)

C3_Witness ==
    /\ FirstFitAllReturned
    /\ Window = 1
    /\ result.early
    /\ result.step = 1
    /\ Len(fittingModelNames) = 3
    /\ NumConditions = 2

\* a tie between the window and the best of all lets the sweep go on
C3_TieWitness ==
    /\ pc = "sweep"
    /\ fitAllCalls = "first"
    /\ Window = 1
    /\ i = 2
    /\ RecordedL(1) = RecordedL(2)

\* the log-likelihoods of the first n candidates are recorded and are the first
\* n of the example
ExampleRecorded(n) ==
    /\ fitAllCalls = "first"
    /\ Window = 3
    /\ FirstNames(n) \subseteq DOMAIN logLikelihoodDict
    /\ \A m \in 1..n : RecordedL(m) = ExampleLs[m]

\* C4 as stated: with the log-likelihoods 5, 6, 7, 4, 3, 2 and W = 3 the rule
\* does not fire at the sixth model, the sweep is not stopped there.
C4_AsStated_NoStopAtSixth ==
    ExampleRecorded(6) =>
        ~(pc = "idle" /\ result.op = "fitAll" /\ result.early /\ result.step = 5)

\* C4 (amended): with the log-likelihoods 5, 6, 7, 4, 3, 2 and W = 3 the rule
\* fires at the sixth model (the last three, 4 3 2, are all worse than 7): the
\* sweep is stopped there and the seventh name gets no entry; it does not fire
\* at the fifth model, where the last three are 7 4 3.
C4_StopsAtSixth ==
    /\ ExampleRecorded(6) =>
          /\ FirstFitAllReturned
          /\ fitAllDone
          /\ result.early
          /\ result.step = 5
          /\ DOMAIN logLikelihoodDict = FirstNames(6)
    /\ (ExampleRecorded(5) /\ DOMAIN logLikelihoodDict = FirstNames(5)) =>
          /\ pc = "sweep"
          /\ i = 5
          /\ ~fitAllDone

C4_Witness ==
    /\ ExampleRecorded(6)
    /\ pc = "idle"
    /\ Len(fittingModelNames) = 7

\* C5: when the candidate list is no longer than the window, the first fitAll
\* call never ends by the stopping rule: when it returns every name has its
\* cost, penalty and log-likelihood entry, every problem was fitted once per
\* name, and fitAllDone is set.
C5_ShortListSweptInFull ==
    (fitAllCalls = "first" /\ Len(fittingModelNames) <= Window) =>
        /\ ~result.early
        /\ FirstFitAllReturned =>
             /\ fitAllDone
             /\ DOMAIN costDict = FirstNames(Len(fittingModelNames))
             /\ DOMAIN penaltyDict = FirstNames(Len(fittingModelNames))
             /\ DOMAIN logLikelihoodDict = FirstNames(Len(fittingModelNames))
             /\ \A k \in 1..NumConditions :
                    Len(SelectSeq(callLog, LAMBDA c : c.cond = k))
                        = Len(fittingModelNames)

\* the list is as long as the window and the log-likelihood went down
C5_Witness ==
    /\ FirstFitAllReturned
    /\ Window = 2
    /\ Len(fittingModelNames) = 2
    /\ NumConditions = 2
    /\ RecordedL(2) < RecordedL(1)

\* what the object and its problems hold
objectState == <<fittingProblemList, costDict, penaltyDict, logLikelihoodDict,
                 numParametersDict, fitAllDone, fittingModelNames, stopFittingN>>

\* C6: a call of an unsupported operation, in whatever state it is made, ends
\* in the "Not implemented" error and leaves the dictionaries, fitAllDone, the
\* problem list and every problem as they were.
C6_UnsupportedRaisesAndKeepsState ==
    [][result'.op \in UnsupportedOps =>
          /\ result'.kind = "error"
          /\ result'.err = "Not implemented"
          /\ UNCHANGED objectState]_vars

C6_Witness ==
    /\ result.op = "_UpdateDicts"
    /\ result.kind = "error"
    /\ fitAllDone
    /\ Cardinality(DOMAIN costDict) >= 2
    /\ NumConditions = 2

\* C7: an object built from D datasets and P parameter lists has min(D, P)
\* problems, the k-th made of dataset k and parameter list k, and keeps exactly
\* these whatever is called on it afterwards.
C7_OneProblemPerPairedCondition ==
    (pc # "new" /\ ~indepParamsListMultiple.none) =>
        LET D == Len(fittingDataMultiple)
            P == Len(indepParamsListMultiple.list)
        IN  /\ NumConditions = (IF D < P THEN D ELSE P)
            /\ \A k \in 1..NumConditions :
                  /\ fittingProblemList[k].fittingData = fittingDataMultiple[k]
                  /\ fittingProblemList[k].indepParamsList
                        = indepParamsListMultiple.list[k]

\* more datasets than parameter lists: the list is cut to the shorter, and is
\* still so after a sweep and other calls
C7_Witness ==
    /\ ~indepParamsListMultiple.none
    /\ Len(fittingDataMultiple) > Len(indepParamsListMultiple.list)
    /\ fitAllDone
    /\ fittingProblemList[1].perfectFitted
    /\ result.op = "getBestModel"

\* two datasets and two parameter lists, after a sweep and other calls
C7_PairedWitness ==
    /\ ~indepParamsListMultiple.none
    /\ Len(fittingDataMultiple) = 2
    /\ Len(indepParamsListMultiple.list) = 2
    /\ fitAllDone
    /\ fittingProblemList[2].perfectFitted
    /\ result.op = "plotResults"

\* C8: getBestModel with a name every problem has fitted returns the list of
\* the problems' fitted models for that name, one per problem in condition
\* order, and changes nothing in the object or its problems.
C8_BestModelPerCondition ==
    [][(/\ result'.op = "getBestModel"
        /\ \A k \in 1..NumConditions :
              result'.name \in DOMAIN fittingProblemList[k].fittingModelDict) =>
          /\ result'.kind = "return"
          /\ Len(result'.val) = NumConditions
          /\ \A k \in 1..NumConditions :
                /\ result'.val[k]
                      = fittingProblemList[k].fittingModelDict[result'.name]
                /\ result'.val[k].data = fittingDataMultiple[k]
                /\ result'.val[k].model = result'.name
          /\ UNCHANGED objectState]_vars

C8_Witness ==
    /\ result.op = "getBestModel"
    /\ result.kind = "return"
    /\ result.name = 2
    /\ Len(result.val) = 2

\* C9: a fitPerfectModel or plotResults call makes the same call on every
\* problem, once each and in condition order, and leaves the cost, penalty and
\* log-likelihood dictionaries and fitAllDone as they were.
C9_BroadcastOncePerCondition ==
    [][result'.op \in {"fitPerfectModel", "plotResults"} =>
          /\ result'.kind = "return"
          /\ Len(callLog') = NumConditions
          /\ \A k \in 1..NumConditions :
                callLog'[k].op = result'.op /\ callLog'[k].cond = k
          /\ UNCHANGED <<costDict, penaltyDict, logLikelihoodDict, fitAllDone>>]_vars

C9_Witness ==
    /\ result.op = "plotResults"
    /\ NumConditions = 2
    /\ Len(callLog) = 2
    /\ fittingProblemList[1].perfectFitted
    /\ fittingProblemList[2].perfectFitted
    /\ Cardinality(DOMAIN costDict) >= 1

\* C10: when a problem's fit fails at step i of the first fitAll call, the
\* call ends with that error: the name of step i and the later names get no
\* aggregate entry, the entries of the earlier steps stay as they are, no later
\* problem is fitted at step i, and fitAllDone stays false.
C10_FailedFitAbortsSweep ==
    [][(/\ fitAllCalls' = "first"
        /\ result'.op = "fitAll"
        /\ result'.kind = "error") =>
          /\ pc' = "idle"
          /\ UNCHANGED <<costDict, penaltyDict, logLikelihoodDict>>
          /\ DOMAIN costDict' = FirstNames(result'.step)
          /\ DOMAIN penaltyDict' = FirstNames(result'.step)
          /\ DOMAIN logLikelihoodDict' = FirstNames(result'.step)
          /\ \A k \in (result'.cond + 1)..NumConditions :
                /\ fittingModelNames[result'.step + 1]
                      \notin DOMAIN fittingProblemList'[k].costDict
                /\ \A c \in 1..Len(callLog') :
                      ~(callLog'[c].cond = k
                        /\ callLog'[c].maxNumFit = result'.step + 1)
          /\ fitAllDone' = FALSE]_vars

\* the first of two problems fails at the second step
C10_Witness ==
    /\ fitAllCalls = "first"
    /\ result.op = "fitAll"
    /\ result.kind = "error"
    /\ result.step = 1
    /\ result.cond = 1
    /\ NumConditions = 2

\* a fitAll call is running or was the last operation
InFitAll == result.op = "fitAll"

\* the c-th logged call of a sweep is the fit of problem ((c-1) mod N) + 1 with
\* maxNumFit = ((c-1) div N) + 1
InSweepOrder(c) ==
    /\ callLog[c].op = "fitAll"
    /\ callLog[c].maxNumFit = ((c - 1) \div NumConditions) + 1
    /\ callLog[c].cond = ((c - 1) % NumConditions) + 1

\* C11: in every fitAll call the fits are made step by step and, within a
\* step, problem by problem in condition order, each problem once per step
\* with maxNumFit = i + 1.  While fits of step i are pending or just done, the
\* names of all earlier steps have their aggregate entry and the stopping rule
\* did not hold at any of them; in the first call the name of step i has no
\* entry before all N fits of the step returned.
C11_StepsRunInOrder ==
    /\ InFitAll => \A c \in 1..Len(callLog) : InSweepOrder(c)
    /\ pc = "sweep" =>
          /\ Len(callLog) = i * NumConditions + (cond - 1)
          /\ cond \in 1..(NumConditions + 1)
          /\ \A c \in 1..Len(callLog) : callLog[c].returned
          /\ FirstNames(i) \subseteq DOMAIN costDict
          /\ FirstNames(i) \subseteq DOMAIN penaltyDict
          /\ FirstNames(i) \subseteq DOMAIN logLikelihoodDict
          /\ fitAllCalls = "first" =>
                /\ fittingModelNames[i + 1] \notin DOMAIN costDict
                /\ fittingModelNames[i + 1] \notin DOMAIN penaltyDict
                /\ fittingModelNames[i + 1] \notin DOMAIN logLikelihoodDict
                /\ Window >= 1 => \A n \in 1..i : ~WindowIsWorse(n, Window)
    /\ (InFitAll /\ pc = "idle" /\ result.kind = "return"
          /\ Len(fittingModelNames) >= 1) =>
          /\ Len(callLog) = (result.step + 1) * NumConditions
          /\ \A c \in 1..Len(callLog) : callLog[c].returned
          /\ FirstNames(result.step + 1) \subseteq DOMAIN logLikelihoodDict

\* the second step of a first call, between the fits of two problems
C11_Witness ==
    /\ pc = "sweep"
    /\ fitAllCalls = "first"
    /\ NumConditions = 2
    /\ i = 1
    /\ cond = 2
    /\ Len(callLog) = 3

\* C12: when the first problem defines no stopFittingN, the construction of
\* the object with its shared setup succeeds, and the window a fitAll call of
\* the object then sets and applies is 3.
C12_DefaultWindowIsThree ==
    (pc # "new" /\ ~HasAttr(fittingProblemList[1].stopFittingN)) =>
        /\ pc # "failed"
        /\ result.kind # "error"
        /\ HasAttr(stopFittingN) => Window = DefaultStopFittingN

\* how many steps of the current/last fitAll call evaluated the stopping rule
StepsEvaluated ==
    IF pc = "sweep" THEN i
    ELSE IF result.kind = "error" THEN result.step
    ELSE IF Len(fittingModelNames) = 0 THEN 0
    ELSE result.step + 1

\* the log-likelihoods of the first n candidates, in sweep order
VisitedLs(n) == [m \in 1..n |-> RecordedL(m)]

\* the positions in the candidate list of the names that have a log-likelihood
RecordedPositions ==
    {m \in 1..Len(fittingModelNames) :
        fittingModelNames[m] \in DOMAIN logLikelihoodDict}

\* C13 as stated: in every fitAll call, a second call on an object whose
\* dictionaries were not reset included, the list the stopping rule compares
\* at step i is made of the log-likelihoods of the names visited so far in this
\* call (positions 0..i), in sweep order, and of no other name.
C13_AsStated_OnlyVisitedNames ==
    (InFitAll /\ StepsEvaluated >= 1) => orderedLs = VisitedLs(StepsEvaluated)

\* C13 (amended): the list the stopping rule compares at step i is made of
\* the log-likelihoods of every name that has an entry, in candidate-list
\* order, the names visited so far in this call among them.  In the first
\* fitAll call of an object these are exactly the names visited so far; in a
\* later call the entries left by earlier calls for names after step i are
\* compared too.
C13_ComparesEveryRecordedName ==
    (InFitAll /\ StepsEvaluated >= 1) =>
        /\ 1..StepsEvaluated \subseteq RecordedPositions
        /\ Len(orderedLs) = Cardinality(RecordedPositions)
        /\ \A m \in RecordedPositions :
              orderedLs[Cardinality({n \in RecordedPositions : n <= m})]
                  = RecordedL(m)
        /\ fitAllCalls = "first" => orderedLs = VisitedLs(StepsEvaluated)

\* a later call went past its first step with the entries of an earlier call
\* for the later names in the compared list
C13_Witness ==
    /\ pc = "sweep"
    /\ fitAllCalls = "later"
    /\ i = 1
    /\ Len(orderedLs) = 3
    /\ orderedLs[2] # orderedLs[3]

\* a later call ended by the stopping rule at its first step
C13_StaleStopWitness ==
    /\ InFitAll
    /\ pc = "idle"
    /\ fitAllCalls = "later"
    /\ result.early
    /\ result.step = 0
    /\ Len(orderedLs) >= 2

\* the step is the normal return of a fitAll call
FitAllReturns ==
    /\ result'.op = "fitAll"
    /\ result'.kind = "return"
    /\ pc' = "idle"
    /\ pc = "sweep" \/ result # result' \/ fitAllCalls # fitAllCalls'

\* C14: fitAllDone is false when the object is set up; the only steps that
\* change it are normal returns of fitAll, which set it to true, and every
\* normal return of fitAll (by the stopping rule, at the end of the list, or
\* at once for an empty list) leaves it true.  So it is false up to the first
\* normal return of a fitAll call and true ever after; no failed fitAll call
\* and no other operation changes it.
C14_FitAllDoneTracksNormalReturn ==
    [][/\ pc = "new" => (~fitAllDone /\ ~fitAllDone')
       /\ fitAllDone' # fitAllDone => (FitAllReturns /\ fitAllDone')
       /\ FitAllReturns => fitAllDone'
       /\ (result'.op # "fitAll" \/ result'.kind = "error") =>
              fitAllDone' = fitAllDone]_vars

\* a first call on an object with no candidate name has returned, and another
\* operation came after it
C14_Witness ==
    /\ fitAllDone
    /\ Len(fittingModelNames) = 0
    /\ fitAllCalls = "first"
    /\ result.op = "plotResults"

\* a first call failed, a later one ran to the end of the list
C14_LaterCallWitness ==
    /\ fitAllDone
    /\ fitAllCalls = "later"
    /\ InFitAll
    /\ result.kind = "return"
    /\ ~result.early
    /\ result.step = 2

\* a failed call leaves the flag false
C14_FailedWitness ==
    /\ ~fitAllDone
    /\ InFitAll
    /\ result.kind = "error"
    /\ fitAllCalls = "later"

\* the three aggregate dictionaries
aggregateDicts == <<costDict, penaltyDict, logLikelihoodDict>>

\* dictionary e is dictionary d with one more key, name, and d's entries as they were
AddsOnly(d, e, name) ==
    /\ name \notin DOMAIN d
    /\ DOMAIN e = DOMAIN d \cup {name}
    /\ \A x \in DOMAIN d : e[x] = d[x]

\* C15: up to the end of the first fitAll call of an object, the key set of
\* the cost, penalty and log-likelihood dictionaries is the same prefix of the
\* candidate list; a step of the sweep that completes adds to each of them one
\* name, the next of the list, and no step removes an entry or changes the
\* value of an entry written by an earlier step.
C15_KeysGrowAsPrefix ==
    [][(pc # "new" /\ fitAllCalls' # "later") =>
          /\ \E n \in 0..Len(fittingModelNames) :
                /\ DOMAIN costDict' = FirstNames(n)
                /\ DOMAIN penaltyDict' = FirstNames(n)
                /\ DOMAIN logLikelihoodDict' = FirstNames(n)
          /\ LET next == fittingModelNames[Cardinality(DOMAIN costDict) + 1]
                 completes == /\ pc = "sweep"
                              /\ cond > NumConditions
                              /\ i' = i + 1 \/ pc' = "idle"
             IN  IF completes
                 THEN /\ next = fittingModelNames[i + 1]
                      /\ AddsOnly(costDict, costDict', next)
                      /\ AddsOnly(penaltyDict, penaltyDict', next)
                      /\ AddsOnly(logLikelihoodDict, logLikelihoodDict', next)
                 ELSE UNCHANGED aggregateDicts]_vars

\* the first call of an object with two problems has written two entries of three
C15_Witness ==
    /\ pc = "sweep"
    /\ fitAllCalls = "first"
    /\ NumConditions = 2
    /\ Len(fittingModelNames) = 3
    /\ i = 2
    /\ DOMAIN costDict = FirstNames(2)
    /\ costDict[fittingModelNames[1]] # costDict[fittingModelNames[2]]

\* C16: getBestModel with a name that some problem has no fitted model for
\* ends in a KeyError: no list is returned, not even of the problems that
\* have one, and the object and its problems are left as they were.
C16_BestModelOfUnfittedNameRaises ==
    [][(/\ result'.op = "getBestModel"
        /\ \E k \in 1..NumConditions :
              result'.name \notin DOMAIN fittingProblemList[k].fittingModelDict) =>
          /\ result'.kind = "error"
          /\ result'.err = "KeyError"
          /\ result'.val = <<>>
          /\ pc' = "idle"
          /\ UNCHANGED objectState]_vars

\* the first problem has a fitted model for the name, the second has none
C16_Witness ==
    /\ result.op = "getBestModel"
    /\ result.kind = "error"
    /\ NumConditions = 2
    /\ result.name \in DOMAIN fittingProblemList[1].fittingModelDict
    /\ result.name \notin DOMAIN fittingProblemList[2].fittingModelDict

\* the name was left unfitted by an early stop
C16_EarlyStopWitness ==
    /\ result.op = "getBestModel"
    /\ result.kind = "error"
    /\ fitAllDone
    /\ Len(fittingModelNames) = 3
    /\ result.name = fittingModelNames[3]
    /\ DOMAIN costDict = FirstNames(2)

\* the step completes a sweep step of fitAll (lines 99-115 have run)
CompletesStep ==
    /\ pc = "sweep"
    /\ cond > NumConditions
    /\ i' = i + 1 \/ pc' = "idle"

\* C17: a step that completes a sweep step leaves the aggregator's
\* numParametersDict equal to the first problem's numParametersDict of that
\* moment, and, the aggregator holding a copy, no other step changes the
\* aggregator's numParametersDict, whatever it does to the first problem's.
C17_NumParametersIsCopyOfStepEnd ==
    [][IF CompletesStep
       THEN NumParametersDictValue' = fittingProblemList'[1].numParametersDict
       ELSE NumParametersDictValue' = NumParametersDictValue]_vars

\* how many logged fits of the current/last fitAll call were of problem k at
\* the step of the m-th candidate
FitsOf(k, m) ==
    Cardinality({c \in 1..Len(callLog) :
                    callLog[c].cond = k /\ callLog[c].maxNumFit = m})

\* C18: when every per-condition fit returns, a fitAll call on N problems and
\* L candidate names comes to its end: a running call always returns, with
\* fitAllDone true.  It never goes beyond step L, never makes more than N * L
\* fits, and when it has returned after s steps every problem was fitted
\* exactly once at each of these s steps and at no other.
C18_FitAllTerminates ==
    /\ [](pc = "sweep" =>
            /\ i < Len(fittingModelNames)
            /\ Len(callLog) <= NumConditions * Len(fittingModelNames)
            /\ \A k \in 1..NumConditions : \A m \in 1..Len(fittingModelNames) :
                  FitsOf(k, m) <= 1)
    /\ []((InFitAll /\ pc = "idle") =>
            /\ result.kind = "return"
            /\ fitAllDone
            /\ StepsEvaluated <= Len(fittingModelNames)
            /\ Len(callLog) = NumConditions * StepsEvaluated
            /\ \A k \in 1..NumConditions : \A m \in 1..Len(fittingModelNames) :
                  FitsOf(k, m) = (IF m <= StepsEvaluated THEN 1 ELSE 0))
    /\ (pc = "sweep") ~> (pc = "idle" /\ InFitAll /\ result.kind = "return"
                             /\ fitAllDone)

\* a call on two problems and three names has returned after all three steps
C18_Witness ==
    /\ InFitAll
    /\ pc = "idle"
    /\ fitAllDone
    /\ NumConditions = 2
    /\ Len(fittingModelNames) = 3
    /\ Len(callLog) = 6
    /\ ~result.early

\* C19: with the window W = 0 the stopping rule never fires, whatever the
\* log-likelihoods: no fitAll call of the object ends by the rule, and a call
\* whose fits all return ends only after the last name of the list, with an
\* entry for every name.
C19_ZeroWindowNeverStops ==
    (pc \in {"idle", "sweep"} /\ Window = 0 /\ InFitAll) =>
        /\ ~result.early
        /\ (pc = "idle" /\ result.kind = "return"
              /\ Len(fittingModelNames) >= 1) =>
              /\ result.step + 1 = Len(fittingModelNames)
              /\ Len(callLog) = NumConditions * Len(fittingModelNames)
              /\ DOMAIN logLikelihoodDict = FirstNames(Len(fittingModelNames))
              /\ orderedLs = VisitedLs(Len(fittingModelNames))

\* the log-likelihood went down twice and the sweep still went to the end
C19_Witness ==
    /\ pc = "idle"
    /\ Window = 0
    /\ InFitAll
    /\ result.kind = "return"
    /\ Len(fittingModelNames) = 3
    /\ RecordedL(2) < RecordedL(1)
    /\ RecordedL(3) < RecordedL(1)

====
